---- MODULE Spec2Model ----
(***************************************************************************)
(* Kaiye: the Streamlit chat application of src/app.py (class              *)
(* KanyeChatbot).  The model covers the session-scoped chat history: the   *)
(* session dictionary st.session_state, the per-run KanyeChatbot object    *)
(* with its history_file attribute, the history files on disk and the     *)
(* line-delimited encoding "<Role>: <content>\n\n" that save_chat_history  *)
(* writes and load_chat_history parses.                                    *)
(*                                                                         *)
(* Text is a sequence of one-character strings, so that strip, split,      *)
(* lower, capitalize and readlines are computed as Python computes them.   *)
(*                                                                         *)
(* Two specifications:                                                     *)
(*   Spec      the application: sessions running main() again and again;   *)
(*   SpecStore the history store alone: a constructed KanyeChatbot whose   *)
(*             load_chat_history and add_message are called in any order   *)
(*             on a file in any state.                                     *)
(***************************************************************************)
EXTENDS Integers, Sequences, FiniteSets, TLC

(***************************************************************************)
(* Bounds of the model                                                     *)
(***************************************************************************)
\* number of distinct values datetime.now().timestamp() takes
MaxClock == 2
\* longest in-memory log for which a prompt is still submitted (Spec)
MaxLog == 3
\* longest in-memory log to which SpecStore still appends
MaxUnitLog == 3
\* number of text chunks an arbitrary pre-existing file is made of (SpecStore)
MaxChunks == 3
\* most chunks of a pre-existing file that add_message is exercised on
MaxSeeded == 1

(***************************************************************************)
(* Python str operations                                                   *)
(***************************************************************************)
UpperChars == <<"A","B","C","D","E","F","G","H","I","J","K","L","M",
                "N","O","P","Q","R","S","T","U","V","W","X","Y","Z">>
LowerChars == <<"a","b","c","d","e","f","g","h","i","j","k","l","m",
                "n","o","p","q","r","s","t","u","v","w","x","y","z">>

\* str.isspace for one character
IsSpace(c) == c \in {" ", "\n", "\t", "\r"}

LowerChar(c) ==
  IF \E i \in 1..Len(UpperChars) : UpperChars[i] = c
  THEN LowerChars[CHOOSE i \in 1..Len(UpperChars) : UpperChars[i] = c]
  ELSE c

UpperChar(c) ==
  IF \E i \in 1..Len(LowerChars) : LowerChars[i] = c
  THEN UpperChars[CHOOSE i \in 1..Len(LowerChars) : LowerChars[i] = c]
  ELSE c

\* str.lower
lower(s) == [i \in 1..Len(s) |-> LowerChar(s[i])]

\* str.capitalize: first character upper-cased, the rest lower-cased
capitalize(s) ==
  [i \in 1..Len(s) |-> IF i = 1 THEN UpperChar(s[i]) ELSE LowerChar(s[i])]

RECURSIVE lstrip(_)
lstrip(s) ==
  IF s = <<>> THEN <<>>
  ELSE IF IsSpace(Head(s)) THEN lstrip(Tail(s)) ELSE s

RECURSIVE rstrip(_)
rstrip(s) ==
  IF s = <<>> THEN <<>>
  ELSE IF IsSpace(s[Len(s)]) THEN rstrip(SubSeq(s, 1, Len(s) - 1)) ELSE s

\* str.strip()
strip(s) == rstrip(lstrip(s))

\* the separator of the line-delimited encoding
SEP == <<":", " ">>

\* str.find(": "): index of the first occurrence of the separator, 0 if none
FindSep(s) ==
  IF \E i \in 1..(Len(s) - 1) : s[i] = SEP[1] /\ s[i + 1] = SEP[2]
  THEN CHOOSE i \in 1..(Len(s) - 1) :
         /\ s[i] = SEP[1] /\ s[i + 1] = SEP[2]
         /\ \A j \in 1..(i - 1) : ~(s[j] = SEP[1] /\ s[j + 1] = SEP[2])
  ELSE 0

\* s.split(": ", 1): one or two parts
split1(s) ==
  IF FindSep(s) = 0 THEN <<s>>
  ELSE <<SubSeq(s, 1, FindSep(s) - 1), SubSeq(s, FindSep(s) + 2, Len(s))>>

\* file.readlines(): the lines of the text, each keeping its "\n"
RECURSIVE readlines(_)
readlines(data) ==
  IF data = <<>> THEN <<>>
  ELSE IF \E i \in 1..Len(data) : data[i] = "\n"
       THEN LET n == CHOOSE i \in 1..Len(data) :
                       data[i] = "\n" /\ \A j \in 1..(i - 1) : data[j] # "\n"
            IN  <<SubSeq(data, 1, n)>> \o readlines(SubSeq(data, n + 1, Len(data)))
       ELSE <<data>>

(***************************************************************************)
(* Constants of the program                                                *)
(***************************************************************************)
INITIAL_MESSAGE ==
  <<"W","h","a","t","'","s"," ","g","o","o","d","?"," ","I","t","'","s"," ",
    "Y","e","."," ","W","h","a","t"," ","d","o"," ","y","o","u"," ","w","a",
    "n","n","a"," ","k","n","o","w","?">>

\* the fixed reply of get_response when generation raises; "*" stands for
\* the microphone emoji that ends the text
FALLBACK ==
  <<"Y","o",","," ","I","'","m"," ","h","a","v","i","n","g"," ","a"," ",
    "m","o","m","e","n","t"," ","h","e","r","e","."," ","L","e","t","'","s",
    " ","t","r","y"," ","t","h","a","t"," ","a","g","a","i","n"," ","l","a",
    "t","e","r","."," ","*">>

user == <<"u","s","e","r">>
assistant == <<"a","s","s","i","s","t","a","n","t">>
Roles == {user, assistant}

Turn(role, content) == [role |-> role, content |-> content]

\* [{"role": "assistant", "content": INITIAL_MESSAGE}]
Greeting == <<Turn(assistant, INITIAL_MESSAGE)>>

(***************************************************************************)
(* Session identity and storage location                                   *)
(***************************************************************************)
Sessions == {1, 2}
Timestamps == 1..MaxClock

\* hashlib.md5(session_info.encode()).hexdigest(): a deterministic digest;
\* the digest itself is not computed, the token is the tagged seed
md5(session_info) == <<"md5", session_info>>

\* f"chat_history_{...}.txt"
FileName(chat_id) == <<"chat_history_", chat_id, ".txt">>

Locations == {FileName(md5(t)) : t \in Timestamps}

\* the attribute self.history_file before __init__ has assigned it
NoAttr == <<"no attribute">>

NoFile == [exists |-> FALSE, data |-> <<>>]
File(data) == [exists |-> TRUE, data |-> data]

(***************************************************************************)
(* The history store: load_chat_history, save_chat_history, add_message    *)
(***************************************************************************)
\* variant of ParseLine that keeps the role as written, without lower()
ParseLine_NoLower(line) ==
  IF strip(line) = <<>> THEN <<>>
  ELSE LET parts == split1(strip(line))
       IN  IF Len(parts) = 2
           THEN <<Turn(parts[1], parts[2])>>
           ELSE <<>>

\* lines 73-78: one line of the file; <<>> when the line is skipped
ParseLine(line) ==
  IF strip(line) = <<>> THEN <<>>
  ELSE LET parts == split1(strip(line))
       IN  IF Len(parts) = 2
           THEN <<Turn(lower(parts[1]), parts[2])>>
           ELSE <<>>

\* variant of ParseLines that leaves the loop at the first malformed line
RECURSIVE ParseLines_StopAtMalformed(_)
ParseLines_StopAtMalformed(lines) ==
  IF lines = <<>> THEN <<>>
  ELSE IF strip(Head(lines)) # <<>> /\ Len(split1(strip(Head(lines)))) # 2
       THEN <<>>
       ELSE ParseLine(Head(lines)) \o ParseLines_StopAtMalformed(Tail(lines))

\* lines 71-78: the loop over the lines, in file order
RECURSIVE ParseLines(_)
ParseLines(lines) ==
  IF lines = <<>> THEN <<>>
  ELSE ParseLine(Head(lines)) \o ParseLines(Tail(lines))

\* variant of load_chat_history without the default: an absent file gives
\* an empty list
load_chat_history_NoDefault(hf, fsys, readable) ==
  IF hf = NoAttr
  THEN [messages |-> Greeting, logged |-> <<"load">>]
  ELSE IF ~fsys[hf].exists
  THEN [messages |-> <<>>, logged |-> <<>>]
  ELSE IF ~readable
  THEN [messages |-> Greeting, logged |-> <<"load">>]
  ELSE [messages |-> ParseLines(readlines(fsys[hf].data)), logged |-> <<>>]

\* variant of load_chat_history whose handler returns the greeting without
\* logging the error
load_chat_history_SilentError(hf, fsys, readable) ==
  IF hf = NoAttr
  THEN [messages |-> Greeting, logged |-> <<>>]
  ELSE IF ~fsys[hf].exists
  THEN [messages |-> Greeting, logged |-> <<>>]
  ELSE IF ~readable
  THEN [messages |-> Greeting, logged |-> <<>>]
  ELSE [messages |-> ParseLines(readlines(fsys[hf].data)), logged |-> <<>>]

\* load_chat_history(self).  hf is self.history_file (NoAttr while __init__
\* has not assigned it: reading it raises AttributeError inside the try),
\* readable says whether open(..., 'r') and readlines() succeed.
\* Result: the returned list and the errors logged.
load_chat_history(hf, fsys, readable) ==
  IF hf = NoAttr
  THEN [messages |-> Greeting, logged |-> <<"load">>]
  ELSE IF ~fsys[hf].exists
  THEN [messages |-> Greeting, logged |-> <<>>]
  ELSE IF ~readable
  THEN [messages |-> Greeting, logged |-> <<"load">>]
  ELSE [messages |-> ParseLines(readlines(fsys[hf].data)), logged |-> <<>>]

\* line 91: f"{message['role'].capitalize()}: {message['content']}\n\n"
Record(message) ==
  capitalize(message.role) \o SEP \o message.content \o <<"\n", "\n">>

\* lines 89-91: the records of the whole log, in log order
RECURSIVE Serialize(_)
Serialize(messages) ==
  IF messages = <<>> THEN <<>>
  ELSE Record(Head(messages)) \o Serialize(Tail(messages))

\* what a write of the file can come to:
\*   ok           every record written and the file closed
\*   open_failed  open(..., 'w') raises, the file is untouched
\*   empty        open truncated the file, then the write raised
\*   half         open truncated the file, the write raised part-way
WriteOutcomes == {"ok", "open_failed", "empty", "half"}

\* variant of save_chat_history that opens the file in append mode
save_chat_history_AppendMode(hf, messages, fsys, outcome) ==
  IF hf = NoAttr \/ outcome = "open_failed"
  THEN [fs |-> fsys, logged |-> <<"save">>, raised |-> FALSE]
  ELSE IF outcome = "ok"
  THEN [fs |-> [fsys EXCEPT ![hf] = File(@.data \o Serialize(messages))],
        logged |-> <<>>, raised |-> FALSE]
  ELSE IF outcome = "empty"
  THEN [fs |-> [fsys EXCEPT ![hf] = File(@.data)],
        logged |-> <<"save">>, raised |-> FALSE]
  ELSE [fs |-> [fsys EXCEPT ![hf] =
                  File(@.data \o SubSeq(Serialize(messages), 1,
                                        Len(Serialize(messages)) \div 2))],
        logged |-> <<"save">>, raised |-> FALSE]

\* variant of save_chat_history without the try/except around the write
save_chat_history_NoExcept(hf, messages, fsys, outcome) ==
  IF hf = NoAttr \/ outcome = "open_failed"
  THEN [fs |-> fsys, logged |-> <<>>, raised |-> TRUE]
  ELSE IF outcome = "ok"
  THEN [fs |-> [fsys EXCEPT ![hf] = File(Serialize(messages))],
        logged |-> <<>>, raised |-> FALSE]
  ELSE IF outcome = "empty"
  THEN [fs |-> [fsys EXCEPT ![hf] = File(<<>>)],
        logged |-> <<>>, raised |-> TRUE]
  ELSE [fs |-> [fsys EXCEPT ![hf] =
                  File(SubSeq(Serialize(messages), 1,
                              Len(Serialize(messages)) \div 2))],
        logged |-> <<>>, raised |-> TRUE]

\* save_chat_history(self): the file system afterwards, the errors logged
\* and whether an exception leaves the method
save_chat_history(hf, messages, fsys, outcome) ==
  IF hf = NoAttr \/ outcome = "open_failed"
  THEN [fs |-> fsys, logged |-> <<"save">>, raised |-> FALSE]
  ELSE IF outcome = "ok"
  THEN [fs |-> [fsys EXCEPT ![hf] = File(Serialize(messages))],
        logged |-> <<>>, raised |-> FALSE]
  ELSE IF outcome = "empty"
  THEN [fs |-> [fsys EXCEPT ![hf] = File(<<>>)],
        logged |-> <<"save">>, raised |-> FALSE]
  ELSE [fs |-> [fsys EXCEPT ![hf] =
                  File(SubSeq(Serialize(messages), 1,
                              Len(Serialize(messages)) \div 2))],
        logged |-> <<"save">>, raised |-> FALSE]

\* variant of add_message that puts the new turn in front of the log
add_message_Prepend(state, hf, role, content, fsys, outcome) ==
  LET grown == [state EXCEPT !["messages"] = <<Turn(role, content)>> \o @]
      saved == save_chat_history(hf, grown["messages"], fsys, outcome)
  IN  [state |-> grown, fs |-> saved.fs, logged |-> saved.logged,
       raised |-> saved.raised]

\* variant of add_message that saves before it appends
add_message_SaveFirst(state, hf, role, content, fsys, outcome) ==
  LET saved == save_chat_history(hf, state["messages"], fsys, outcome)
  IN  [state |-> [state EXCEPT !["messages"] = Append(@, Turn(role, content))],
       fs |-> saved.fs, logged |-> saved.logged, raised |-> saved.raised]

\* add_message(self, role, content): append to st.session_state.messages,
\* then save_chat_history
add_message(state, hf, role, content, fsys, outcome) ==
  LET appended == [state EXCEPT !["messages"] = Append(@, Turn(role, content))]
      saved == save_chat_history(hf, appended["messages"], fsys, outcome)
  IN  [state |-> appended, fs |-> saved.fs, logged |-> saved.logged,
       raised |-> saved.raised]

(***************************************************************************)
(* Session state and construction of the KanyeChatbot object               *)
(***************************************************************************)
\* st.session_state of a session that has run nothing yet
EmptyState == [k \in {} |-> 0]

\* get_chat_id(self)
get_chat_id(state) == md5(state["session_id"])

\* variant of initialize_session_state that loads the history in every
\* script run
initialize_session_state_Reload(state, hf, fsys, clock, readable) ==
  LET withId == IF "session_id" \notin DOMAIN state
                THEN state @@ ("session_id" :> clock)
                ELSE state
      loaded == load_chat_history(hf, fsys, readable)
  IN  [state |-> ("messages" :> loaded.messages) @@ withId,
       logged |-> loaded.logged]

\* variant of initialize_session_state that takes a new session_id in every
\* script run
initialize_session_state_NewId(state, hf, fsys, clock, readable) ==
  LET withId == ("session_id" :> clock) @@ state
      loaded == load_chat_history(hf, fsys, readable)
  IN  IF "messages" \notin DOMAIN withId
      THEN [state |-> withId @@ ("messages" :> loaded.messages),
            logged |-> loaded.logged]
      ELSE [state |-> withId, logged |-> <<>>]

\* initialize_session_state(self); hf is self.history_file at the call
initialize_session_state(state, hf, fsys, clock, readable) ==
  LET withId == IF "session_id" \notin DOMAIN state
                THEN state @@ ("session_id" :> clock)
                ELSE state
      loaded == load_chat_history(hf, fsys, readable)
  IN  IF "messages" \notin DOMAIN withId
      THEN [state |-> withId @@ ("messages" :> loaded.messages),
            logged |-> loaded.logged]
      ELSE [state |-> withId, logged |-> <<>>]

\* what configure_gemini can come to
ConfigOutcomes == {"ok", "error"}

\* variant of configure_gemini that reports the failure without st.stop()
configure_gemini_NoStop(cfg) ==
  IF cfg = "ok" THEN [logged |-> <<>>, stopped |-> FALSE]
  ELSE [logged |-> <<"configure">>, stopped |-> FALSE]

\* configure_gemini(self): errors logged, and whether st.stop() ends the run
configure_gemini(cfg) ==
  IF cfg = "ok" THEN [logged |-> <<>>, stopped |-> FALSE]
  ELSE [logged |-> <<"configure">>, stopped |-> TRUE]

(***************************************************************************)
(* State                                                                   *)
(***************************************************************************)
VARIABLES
  now,            \* the value datetime.now().timestamp() returns
  session_state,  \* st.session_state of every session
  history_file,   \* self.history_file of the session's KanyeChatbot object
  pc,             \* where the session's script run stands
  fs,             \* the history files on disk, by file name
  last,           \* the step taken last: what it was, what it logged and read
                  \* (for an append in Spec: the file as it was before it)
  chunks          \* SpecStore: the chunks the pre-existing file was made of

vars == <<now, session_state, history_file, pc, fs, last, chunks>>

\* what the prompt box and the response generator deliver
hi == <<"h","i">>
yo == <<"y","o">>
Prompts == {hi}
Responses == {yo}
\* what model.generate_content can come to: a text, or an exception
GenOutcomes ==
  {[raises |-> FALSE, text |-> r] : r \in Responses}
    \cup {[raises |-> TRUE, text |-> <<>>]}

(***************************************************************************)
(* Spec: the application                                                   *)
(***************************************************************************)
Init ==
  /\ now = 1
  /\ session_state = [s \in Sessions |-> EmptyState]
  /\ history_file = [s \in Sessions |-> NoAttr]
  /\ pc = [s \in Sessions |-> "idle"]
  /\ fs = [f \in Locations |-> NoFile]
  /\ last = [op |-> "none"]
  /\ chunks = <<>>

\* time passes between two readings of the clock
Tick ==
  /\ now < MaxClock
  /\ now' = now + 1
  /\ last' = [op |-> "tick"]
  /\ UNCHANGED <<session_state, history_file, pc, fs, chunks>>

\* main(), line 180: KanyeChatbot() for one script run of session s.
\* __init__ runs initialize_session_state on the new object, whose
\* history_file is not assigned yet, then assigns history_file, then
\* configure_gemini, which stops the run when it fails.
Construct(s, cfg, readable) ==
  /\ pc[s] = "idle"
  /\ LET iss == initialize_session_state(session_state[s], NoAttr, fs, now,
                                          readable)
         conf == configure_gemini(cfg)
     IN  /\ session_state' = [session_state EXCEPT ![s] = iss.state]
         /\ history_file' =
              [history_file EXCEPT ![s] = FileName(get_chat_id(iss.state))]
         /\ pc' = [pc EXCEPT ![s] = IF conf.stopped THEN "idle" ELSE "run"]
         /\ last' = [op |-> "construct", s |-> s,
                     fresh |-> "messages" \notin DOMAIN session_state[s],
                     logged |-> iss.logged \o conf.logged]
  /\ UNCHANGED <<now, fs, chunks>>

\* run(), lines 155-160: the history is displayed, a prompt was submitted
\* and is appended as the user turn.  An exception leaving add_message
\* reaches the handler of main(), which logs it and ends the run.
UserTurn(s, prompt, outcome) ==
  /\ pc[s] = "run"
  /\ Len(session_state[s]["messages"]) + 2 <= MaxLog
  /\ LET am == add_message(session_state[s], history_file[s], user, prompt,
                           fs, outcome)
     IN  /\ session_state' = [session_state EXCEPT ![s] = am.state]
         /\ fs' = am.fs
         /\ pc' = [pc EXCEPT ![s] = IF am.raised THEN "idle" ELSE "respond"]
         /\ last' = [op |-> "add", s |-> s, turn |-> Turn(user, prompt),
                     write |-> outcome, raised |-> am.raised,
                     before |-> fs[history_file[s]],
                     logged |-> am.logged \o
                                (IF am.raised THEN <<"application">> ELSE <<>>)]
  /\ UNCHANGED <<now, history_file, chunks>>

\* run(), line 157: no prompt was submitted in this script run
NoPrompt(s) ==
  /\ pc[s] = "run"
  /\ pc' = [pc EXCEPT ![s] = "export"]
  /\ last' = [op |-> "no_prompt", s |-> s]
  /\ UNCHANGED <<now, session_state, history_file, fs, chunks>>

\* variant of get_response without the try/except around the generation
get_response_NoExcept(gen) ==
  IF gen.raises
  THEN [text |-> <<>>, logged |-> <<>>, raised |-> TRUE]
  ELSE [text |-> gen.text, logged |-> <<>>, raised |-> FALSE]

\* get_response(self, prompt): the generated text, or the fixed reply when
\* generation raises; raised says whether an exception leaves the method
get_response(gen) ==
  IF gen.raises
  THEN [text |-> FALLBACK, logged |-> <<"generate">>, raised |-> FALSE]
  ELSE [text |-> gen.text, logged |-> <<>>, raised |-> FALSE]

\* run(), lines 162-165: the response is generated and appended as the
\* assistant turn.  An exception leaving get_response or add_message
\* reaches the handler of main(), which logs it and ends the run.
AssistantTurn(s, gen, outcome) ==
  /\ pc[s] = "respond"
  /\ LET resp == get_response(gen)
         am == add_message(session_state[s], history_file[s], assistant,
                           resp.text, fs, outcome)
     IN  IF resp.raised
         THEN /\ pc' = [pc EXCEPT ![s] = "idle"]
              /\ last' = [op |-> "crash", s |-> s,
                          logged |-> resp.logged \o <<"application">>]
              /\ UNCHANGED <<session_state, fs>>
         ELSE /\ session_state' = [session_state EXCEPT ![s] = am.state]
              /\ fs' = am.fs
              /\ pc' = [pc EXCEPT ![s] = IF am.raised THEN "idle" ELSE "export"]
              /\ last' = [op |-> "add", s |-> s,
                          turn |-> Turn(assistant, resp.text),
                          write |-> outcome, raised |-> am.raised,
                          before |-> fs[history_file[s]],
                          logged |-> resp.logged \o am.logged \o
                                     (IF am.raised THEN <<"application">>
                                      ELSE <<>>)]
  /\ UNCHANGED <<now, history_file, chunks>>

\* run(), lines 168-176: the file, when it exists, is read for the download
\* button; a failing read reaches the handler of main()
Export(s, readable) ==
  /\ pc[s] = "export"
  /\ pc' = [pc EXCEPT ![s] = "idle"]
  /\ last' = IF ~fs[history_file[s]].exists
             THEN [op |-> "export", s |-> s, download |-> NoFile,
                   logged |-> <<>>]
             ELSE IF readable
             THEN [op |-> "export", s |-> s,
                   download |-> File(fs[history_file[s]].data),
                   logged |-> <<>>]
             ELSE [op |-> "export", s |-> s, download |-> NoFile,
                   logged |-> <<"application">>]
  /\ UNCHANGED <<now, session_state, history_file, fs, chunks>>

Next ==
  \/ Tick
  \/ \E s \in Sessions, cfg \in ConfigOutcomes, readable \in BOOLEAN :
       Construct(s, cfg, readable)
  \/ \E s \in Sessions, prompt \in Prompts, outcome \in WriteOutcomes :
       UserTurn(s, prompt, outcome)
  \/ \E s \in Sessions : NoPrompt(s)
  \/ \E s \in Sessions, gen \in GenOutcomes,
        outcome \in WriteOutcomes :
       AssistantTurn(s, gen, outcome)
  \/ \E s \in Sessions, readable \in BOOLEAN : Export(s, readable)

Spec == Init /\ [][Next]_vars

(***************************************************************************)
(* SpecStore: the history store alone                                      *)
(***************************************************************************)
\* the session and the file the store under test belongs to
U == 1
UnitFile == FileName(md5(1))

\* text a pre-existing file is made of, and the turns each chunk holds
foo == <<"f","o","o">>
Chunks ==
  << <<"U","s","e","r",":"," ","h","i","\n","\n">>,
     <<"g","a","r","b","a","g","e","l","i","n","e","\n","\n">>,
     <<"A","s","s","i","s","t","a","n","t",":"," ","y","o","\n","\n">>,
     <<"F","o","o",":"," ","x","\n">> >>
ChunkTurns ==
  << <<Turn(user, hi)>>, <<>>, <<Turn(assistant, yo)>>, <<Turn(foo, <<"x">>)>> >>

ChunkSeqs == UNION {[1..n -> 1..Len(Chunks)] : n \in 0..MaxChunks}

RECURSIVE Concat(_)
Concat(cs) == IF cs = <<>> THEN <<>> ELSE Chunks[Head(cs)] \o Concat(Tail(cs))

RECURSIVE ExpectedTurns(_)
ExpectedTurns(cs) ==
  IF cs = <<>> THEN <<>> ELSE ChunkTurns[Head(cs)] \o ExpectedTurns(Tail(cs))

\* the turns add_message is called with
UnitTurns ==
  { Turn(user, hi), Turn(assistant, yo),
    Turn(user, <<>>),
    Turn(user, <<"a", " ">>),
    Turn(assistant, <<" ", "a", ":", " ", "b">>),
    Turn(assistant, <<"a", "\n", "b">>) }

InitStore ==
  /\ now = 1
  /\ session_state =
       [s \in Sessions |->
          IF s = U THEN ("session_id" :> 1) @@ ("messages" :> Greeting)
          ELSE EmptyState]
  /\ history_file = [s \in Sessions |-> IF s = U THEN UnitFile ELSE NoAttr]
  /\ pc = [s \in Sessions |-> IF s = U THEN "unit" ELSE "off"]
  /\ chunks \in ChunkSeqs
  /\ \E present \in BOOLEAN :
       /\ ~present => chunks = <<>>
       /\ fs = [f \in Locations |->
                  IF f = UnitFile /\ present THEN File(Concat(chunks))
                  ELSE NoFile]
  /\ last = [op |-> "none"]

\* load_chat_history() is called and its result becomes the log; the store
\* is exercised by some calls of add_message followed by loads
UnitLoad(readable) ==
  /\ pc[U] \in {"unit", "loaded"}
  /\ LET loaded == load_chat_history(history_file[U], fs, readable)
     IN  /\ session_state' =
               [session_state EXCEPT ![U]["messages"] = loaded.messages]
         /\ last' = [op |-> "load", s |-> U, readable |-> readable,
                     logged |-> loaded.logged]
  /\ pc' = [pc EXCEPT ![U] = "loaded"]
  /\ UNCHANGED <<now, history_file, fs, chunks>>

\* add_message(role, content) is called, on a store whose file was absent
\* or held at most MaxSeeded chunks
UnitAdd(turn, outcome) ==
  /\ pc[U] = "unit"
  /\ Len(session_state[U]["messages"]) < MaxUnitLog
  /\ Len(chunks) <= MaxSeeded
  /\ LET am == add_message(session_state[U], history_file[U], turn.role,
                           turn.content, fs, outcome)
     IN  /\ session_state' = [session_state EXCEPT ![U] = am.state]
         /\ fs' = am.fs
         /\ last' = [op |-> "add", s |-> U, turn |-> turn,
                     write |-> outcome, raised |-> am.raised,
                     logged |-> am.logged]
  /\ UNCHANGED <<now, history_file, pc, chunks>>

NextStore ==
  \/ \E readable \in BOOLEAN : UnitLoad(readable)
  \/ \E turn \in UnitTurns, outcome \in WriteOutcomes : UnitAdd(turn, outcome)

SpecStore == InitStore /\ [][NextStore]_vars

(***************************************************************************)
(* Properties                                                              *)
(***************************************************************************)
\* the in-memory log of session s
Messages(s) == session_state[s]["messages"]

\* the log a load of the store's file returns when the read succeeds
Reloaded(fsys) == load_chat_history(UnitFile, fsys, TRUE).messages

HasNewline(content) == \E i \in 1..Len(content) : content[i] = "\n"

\* the content starts with the separator ": "
StartsWithSep(content) ==
  Len(content) >= 2 /\ content[1] = SEP[1] /\ content[2] = SEP[2]

\* content that is not empty, has no newline and does not end in whitespace
Storable(content) ==
  /\ content # <<>>
  /\ ~HasNewline(content)
  /\ ~IsSpace(content[Len(content)])

\* fresh session, append(user), append(assistant)
Scenario == <<Turn(assistant, INITIAL_MESSAGE), Turn(user, hi), Turn(assistant, yo)>>

\* C1 (as claimed): when a session's log is first initialised, it holds the
\* parsed turns of the history file if one exists at the session's location,
\* and the greeting only when no file exists.
C1_InitialisedFromFile ==
  (last.op = "construct" /\ last.fresh) =>
    LET f == fs[history_file[last.s]]
    IN  Messages(last.s) =
          IF f.exists THEN ParseLines(readlines(f.data)) ELSE Greeting

\* C2: a load on a location where no file exists returns exactly the one
\* greeting turn and creates no file.
C2_LoadAbsentSeedsGreeting ==
  [][(last'.op = "load" /\ ~fs[UnitFile].exists) =>
       (Messages(U)' = Greeting /\ ~fs'[UnitFile].exists)]_vars

C2_Witness ==
  /\ last.op = "load"
  /\ ~fs[UnitFile].exists
  /\ Messages(U) = Greeting

\* C3 (as claimed): every add_message lengthens the log by one and a load
\* right after it returns a log whose last element is the new turn.
C3_AppendReflectedInLoad ==
  [][last'.op = "add" =>
       /\ Len(Messages(U)') = Len(Messages(U)) + 1
       /\ Reloaded(fs') # <<>>
       /\ Reloaded(fs')[Len(Reloaded(fs'))] = last'.turn]_vars

\* C3 (amended): every add_message lengthens the log by one, keeping the
\* earlier turns; when the write succeeds and the content is not empty, has
\* no newline and does not end in whitespace, a load right after it returns
\* a log whose last element is the new turn; and the reload that follows
\* the successful appends of the scenario returns its three turns in order.
C3_AppendReflectedWhenStored ==
  [][/\ last'.op = "add" =>
          /\ Messages(U)' = Append(Messages(U), last'.turn)
          /\ (last'.write = "ok" /\ Storable(last'.turn.content)) =>
               /\ Reloaded(fs') # <<>>
               /\ Reloaded(fs')[Len(Reloaded(fs'))] = last'.turn
     /\ (/\ last.op = "add" /\ last.write = "ok" /\ Messages(U) = Scenario
         /\ last'.op = "load" /\ last'.readable)
          => Messages(U)' = Scenario]_vars

C3_Witness ==
  /\ last.op = "load" /\ last.readable
  /\ fs[UnitFile] = File(Serialize(Scenario))
  /\ Messages(U) = Scenario

\* C4 (as claimed): a log whose contents have no newline and do not start
\* with ": " (empty contents and trailing whitespace included) is returned
\* unchanged by a load of the file save_chat_history wrote.
C4_RoundTrip ==
  [][(/\ last.op = "add" /\ last.write = "ok"
      /\ \A i \in 1..Len(Messages(U)) :
           /\ Messages(U)[i].role \in Roles
           /\ ~HasNewline(Messages(U)[i].content)
           /\ ~StartsWithSep(Messages(U)[i].content)
      /\ last'.op = "load" /\ last'.readable)
       => Messages(U)' = Messages(U)]_vars

\* C4 (amended): a log whose roles are user or assistant and whose contents
\* are not empty, have no newline and do not end in whitespace (leading
\* whitespace and ": " inside the content are kept) is returned unchanged,
\* roles in lower case, by a load of the file save_chat_history wrote.
C4_RoundTripStorable ==
  [][(/\ last.op = "add" /\ last.write = "ok"
      /\ \A i \in 1..Len(Messages(U)) :
           /\ Messages(U)[i].role \in Roles
           /\ Storable(Messages(U)[i].content)
      /\ last'.op = "load" /\ last'.readable)
       => Messages(U)' = Messages(U)]_vars

C4_Witness ==
  /\ last.op = "load" /\ last.readable
  /\ Len(Messages(U)) = 3
  /\ fs[UnitFile] = File(Serialize(Messages(U)))
  /\ Messages(U)[2] = Turn(assistant, <<" ", "a", ":", " ", "b">>)
  /\ Messages(U)[3] = Turn(user, hi)

\* C5: a load of a file skips each non-empty line that has no ": " and
\* returns the turns of all the well-formed lines around it, in file order.
C5_MalformedLineSkipped ==
  (/\ last.op = "load" /\ last.readable
   /\ fs[UnitFile] = File(Concat(chunks)))
    => Messages(U) = ExpectedTurns(chunks)

C5_Witness ==
  /\ last.op = "load" /\ last.readable
  /\ chunks = <<1, 2, 3>>
  /\ fs[UnitFile] = File(Concat(chunks))
  /\ Messages(U) = <<Turn(user, hi), Turn(assistant, yo)>>

\* C6 (as claimed): whatever the state of the storage location, the log
\* load_chat_history returns has at least one turn.
C6_LoadedLogNotEmpty ==
  last.op = "load" => Len(Messages(U)) >= 1

\* C7 (as claimed): every turn of a loaded log and of the in-memory log has
\* the role user or assistant, whatever the file holds.
C7_RolesUserOrAssistant ==
  \A i \in 1..Len(Messages(U)) : Messages(U)[i].role \in Roles

\* C8: after a successful save the file is exactly the serialization of the
\* whole in-memory log, whatever the file held before.
C8_FileIsWholeLog ==
  (last.op = "add" /\ last.write = "ok") =>
    fs[history_file[last.s]] = File(Serialize(Messages(last.s)))

C8_Witness ==
  /\ last.op = "add" /\ last.write = "ok"
  /\ chunks = <<2>>
  /\ Len(Messages(U)) = 2
  /\ fs[UnitFile] = File(Serialize(Messages(U)))

\* no two sessions share a session id, hence a file
SingleWriter ==
  \A s, t \in Sessions :
    (/\ s # t
     /\ "session_id" \in DOMAIN session_state[s]
     /\ "session_id" \in DOMAIN session_state[t])
      => session_state[s]["session_id"] # session_state[t]["session_id"]

\* C9 (as claimed): with one writer per location, what the export read gets
\* is the complete serialization of a log the writer held at a persist.
C9_ReaderSeesCompleteLog ==
  (last.op = "export" /\ last.download.exists /\ SingleWriter) =>
    \E k \in 2..Len(Messages(last.s)) :
      last.download.data = Serialize(SubSeq(Messages(last.s), 1, k))

\* C10: when the write fails, add_message does not raise, the failure is
\* logged, the log is the earlier log followed by the new turn, and the run
\* goes on to its next step.
C10_WriteFailureSwallowed ==
  [][(last'.op = "add" /\ last'.write # "ok") =>
       /\ ~last'.raised
       /\ last'.logged # <<>> /\ last'.logged[Len(last'.logged)] = "save"
       /\ session_state'[last'.s]["messages"] =
            Append(Messages(last'.s), last'.turn)
       /\ pc'[last'.s] = IF last'.turn.role = user THEN "respond"
                         ELSE "export"]_vars

C10_Witness ==
  /\ last.op = "add" /\ last.write = "empty"
  /\ last.turn.role = assistant
  /\ pc[last.s] = "export"
  /\ Len(Messages(last.s)) = 3
  /\ fs[history_file[last.s]] = File(<<>>)

\* every user turn of the log is directly followed by one assistant turn
EveryUserTurnAnswered(log) ==
  \A i \in 1..Len(log) :
    log[i].role = user =>
      /\ i < Len(log)
      /\ log[i + 1].role = assistant
      /\ (i + 2 <= Len(log) => log[i + 2].role # assistant)

\* C11: once a run is past its response step, every user turn of the log is
\* followed by exactly one assistant turn, whether generation succeeded or
\* raised; the assistant turn appended after a failed generation holds the
\* fixed fallback text.
C11_EveryPromptAnswered ==
  /\ \A s \in Sessions :
       (pc[s] \in {"idle", "export"} /\ "messages" \in DOMAIN session_state[s])
         => EveryUserTurnAnswered(Messages(s))
  /\ (last.op = "add" /\ last.turn.role = assistant
      /\ \E i \in 1..Len(last.logged) : last.logged[i] = "generate")
       => last.turn.content = FALLBACK

C11_Witness ==
  /\ last.op = "add"
  /\ last.turn = Turn(assistant, FALLBACK)
  /\ \E i \in 1..Len(last.logged) : last.logged[i] = "generate"
  /\ pc[last.s] = "export"
  /\ Len(Messages(last.s)) = 3
  /\ Messages(last.s)[2] = Turn(user, hi)
  /\ Messages(last.s)[3] = Turn(assistant, FALLBACK)

\* C12: once a session holds a session_id it keeps it in every later step
\* and rerun, and the history_file name derived from it never changes.
C12_SessionIdStable ==
  [][\A s \in Sessions :
       "session_id" \in DOMAIN session_state[s] =>
         /\ "session_id" \in DOMAIN session_state'[s]
         /\ session_state'[s]["session_id"] = session_state[s]["session_id"]
         /\ get_chat_id(session_state'[s]) = get_chat_id(session_state[s])
         /\ history_file[s] # NoAttr => history_file'[s] = history_file[s]]_vars

C12_Witness ==
  /\ last.op = "construct" /\ ~last.fresh
  /\ now = 2
  /\ session_state[last.s]["session_id"] = 1
  /\ history_file[last.s] = FileName(md5(1))

\* the pre-existing file holds a line that cannot be parsed
HasMalformedChunk == \E i \in 1..Len(chunks) : ChunkTurns[chunks[i]] = <<>>

\* C13 (as claimed): a load of a file that cannot be read returns the
\* greeting and logs an error; a load of a file with a line that cannot be
\* parsed skips the line, keeps the rest and logs the skip.
C13_ReadErrorsLogged ==
  /\ (last.op = "load" /\ fs[UnitFile].exists /\ ~last.readable)
       => (Messages(U) = Greeting /\ last.logged = <<"load">>)
  /\ (/\ last.op = "load" /\ last.readable
      /\ fs[UnitFile] = File(Concat(chunks)) /\ HasMalformedChunk)
       => (Messages(U) = ExpectedTurns(chunks) /\ last.logged # <<>>)

\* C13 (amended): a load of a file that cannot be read returns the greeting
\* and logs an error; a load of a file with a line that cannot be parsed
\* skips the line and keeps the rest, and logs nothing for the skip.
C13_ReadErrorLoggedSkipSilent ==
  /\ (last.op = "load" /\ fs[UnitFile].exists /\ ~last.readable)
       => (Messages(U) = Greeting /\ last.logged = <<"load">>)
  /\ (/\ last.op = "load" /\ last.readable
      /\ fs[UnitFile] = File(Concat(chunks)) /\ HasMalformedChunk)
       => (Messages(U) = ExpectedTurns(chunks) /\ last.logged = <<>>)

C13_Witness ==
  /\ last.op = "load" /\ ~last.readable
  /\ chunks = <<1, 2, 3>>
  /\ fs[UnitFile] = File(Concat(chunks))
  /\ Messages(U) = Greeting
  /\ last.logged = <<"load">>

\* C14: when configure_gemini fails, the script run ends in the constructor:
\* run() is not entered, the log is what it was (the greeting when the
\* session had none) and no history file is written.
C14_ConfigFailureHalts ==
  [][(/\ last'.op = "construct"
      /\ \E i \in 1..Len(last'.logged) : last'.logged[i] = "configure")
       => /\ pc'[last'.s] = "idle"
          /\ fs' = fs
          /\ session_state'[last'.s]["messages"] =
               IF "messages" \in DOMAIN session_state[last'.s]
               THEN Messages(last'.s)
               ELSE Greeting]_vars

C14_Witness ==
  /\ last.op = "construct" /\ last.fresh
  /\ \E i \in 1..Len(last.logged) : last.logged[i] = "configure"
  /\ pc[last.s] = "idle"
  /\ Messages(last.s) = Greeting
  /\ ~fs[history_file[last.s]].exists

\* sessions s and o are different and their objects name the same file
SharesFile(s, o) ==
  /\ s # o
  /\ history_file[s] # NoAttr
  /\ history_file[o] = history_file[s]

\* the turns a read of the file f yields
TurnsIn(f) == ParseLines(readlines(f.data))

\* turn is one of the turns of log
InLog(turn, log) == \E i \in 1..Len(log) : log[i] = turn

\* C15: two sessions with separate logs can name the same file, and nothing
\* guards it: after a successful persist by one of them the file holds that
\* session's log and nothing else, no error is logged, and so every turn
\* that only the other session holds is absent from the file, also when the
\* other session had persisted it.
C15_LastWriterWins ==
  \A o \in Sessions :
    (last.op = "add" /\ last.write = "ok" /\ SharesFile(last.s, o)) =>
      /\ fs[history_file[last.s]] = File(Serialize(Messages(last.s)))
      /\ TurnsIn(fs[history_file[last.s]]) = Messages(last.s)
      /\ \A i \in 1..Len(last.logged) : last.logged[i] = "generate"
      /\ \A i \in 1..Len(Messages(o)) :
           ~InLog(Messages(o)[i], Messages(last.s)) =>
             ~InLog(Messages(o)[i], TurnsIn(fs[history_file[o]]))

\* the other session's file held its whole log, with the turn ('yo') that
\* is now gone, right before this session's successful persist
C15_Witness ==
  \E o \in Sessions :
    /\ last.op = "add" /\ last.write = "ok" /\ SharesFile(last.s, o)
    /\ last.logged = <<>>
    /\ last.before = File(Serialize(Messages(o)))
    /\ InLog(Turn(assistant, yo), Messages(o))
    /\ InLog(Turn(assistant, yo), TurnsIn(last.before))
    /\ ~InLog(Turn(assistant, yo), Messages(last.s))
    /\ ~InLog(Turn(assistant, yo), TurnsIn(fs[history_file[o]]))

\* a is a prefix of b
IsPrefix(a, b) == Len(a) <= Len(b) /\ SubSeq(b, 1, Len(a)) = a

\* C16: the log of a session changes only by an append of one turn, and the
\* same step attempts to persist the full resulting log (the file becomes
\* its serialization when the write succeeds, a part of it when the write
\* breaks off, and stays as it was when the file cannot be opened); the
\* user turn is appended and persisted before the response step, the
\* assistant turn before the export read.
C16_AppendThenPersist ==
  [][\A s \in Sessions :
       (/\ "messages" \in DOMAIN session_state[s]
        /\ session_state'[s]["messages"] # Messages(s))
         => LET full == Serialize(session_state'[s]["messages"])
                file == fs'[history_file[s]]
            IN  /\ last'.op = "add" /\ last'.s = s
                /\ session_state'[s]["messages"] =
                     Append(Messages(s), last'.turn)
                /\ last'.write \in WriteOutcomes
                /\ last'.write = "ok" => file = File(full)
                /\ last'.write \in {"empty", "half"} =>
                     /\ file.exists
                     /\ file.data # full
                     /\ IsPrefix(file.data, full)
                /\ last'.write = "open_failed" => fs' = fs
                /\ last'.turn.role = user =>
                     (pc[s] = "run" /\ pc'[s] = "respond")
                /\ last'.turn.role = assistant =>
                     (pc[s] = "respond" /\ pc'[s] = "export")
                /\ last'.turn.role \in Roles]_vars

C16_Witness ==
  /\ last.op = "export"
  /\ Len(Messages(last.s)) = 3
  /\ Messages(last.s)[2].role = user
  /\ Messages(last.s)[3].role = assistant
  /\ last.download = File(Serialize(Messages(last.s)))

\* C17: in every step of the application a session's log keeps its turns in
\* value and position: the log before the step is a prefix of the log after.
C17_LogAppendOnly ==
  [][\A s \in Sessions :
       "messages" \in DOMAIN session_state[s] =>
         /\ "messages" \in DOMAIN session_state'[s]
         /\ IsPrefix(Messages(s), session_state'[s]["messages"])]_vars

C17_Witness ==
  /\ last.op = "add"
  /\ last.write = "half"
  /\ last.logged = <<"generate", "save">>
  /\ Messages(last.s) =
       <<Turn(assistant, INITIAL_MESSAGE), Turn(user, hi),
         Turn(assistant, FALLBACK)>>

\* C18: constructing KanyeChatbot in a session that already holds a log
\* does not call load_chat_history and leaves the log as the previous run
\* left it, whatever the file holds.
C18_RerunKeepsLog ==
  [][(last'.op = "construct" /\ ~last'.fresh) =>
       /\ session_state'[last'.s]["messages"] = Messages(last'.s)
       /\ \A i \in 1..Len(last'.logged) : last'.logged[i] # "load"]_vars

C18_Witness ==
  /\ last.op = "construct" /\ ~last.fresh
  /\ Len(Messages(last.s)) = 3
  /\ fs[history_file[last.s]].exists
  /\ TurnsIn(fs[history_file[last.s]]) # Messages(last.s)

\* C19: when a run of a session is over (and already once its turns are
\* appended), the log has odd length, starts with the greeting and
\* alternates assistant, user, assistant, ...
C19_LogAlternates ==
  \A s \in Sessions :
    (pc[s] \in {"idle", "export"} /\ "messages" \in DOMAIN session_state[s]) =>
      /\ Len(Messages(s)) % 2 = 1
      /\ Messages(s)[1] = Turn(assistant, INITIAL_MESSAGE)
      /\ \A i \in 1..Len(Messages(s)) :
           Messages(s)[i].role = IF i % 2 = 1 THEN assistant ELSE user

C19_Witness ==
  /\ last.op = "export"
  /\ pc[last.s] = "idle"
  /\ Len(Messages(last.s)) = 3
  /\ Messages(last.s)[1] = Turn(assistant, INITIAL_MESSAGE)
  /\ Messages(last.s)[2].role = user
  /\ Messages(last.s)[3] = Turn(assistant, yo)

====
